---- MODULE Spec2Model ----
(***************************************************************************)
(* A model of src/topic.ts: the Topic handle of the Pub/Sub client.        *)
(*                                                                         *)
(* State: the handle's canonical name, its metadata cache, the requests    *)
(* the handle has handed to the RequestExecutor (or to the owning PubSub   *)
(* object) that have not completed yet, and the observable output of the   *)
(* last step (what was called, what the caller's continuation received).   *)
(* A pending request carries the chain of callbacks the code has wrapped   *)
(* around the caller's continuation; a completion runs that chain.         *)
(* Two more variables belong to the caller: an options object it keeps     *)
(* between calls (SpecKept) and the order of its calls and of the fetches' *)
(* completions (SpecFetch, SpecKept); Spec leaves both as they start.      *)
(***************************************************************************)
EXTENDS Integers, Sequences, FiniteSets, Bags, TLC

VARIABLES
    projectId,   \* pubsub.projectId
    topicName,   \* the name given to the constructor
    name,        \* this.name
    metadata,    \* this.metadata
    inflight,    \* the bag of pending asynchronous requests
    event,       \* the observable output of the last step
    kept,        \* an options object the caller keeps and passes again
    history      \* the calls made and the fetches completed, in order

vars == <<projectId, topicName, name, metadata, inflight, event, kept,
          history>>

----------------------------------------------------------------------------
(* Bounds of the model *)

MaxInFlight == 2      \* calls in flight on the handle at one time
MaxPage == 2          \* subscription names in one page of a listing
MaxCalls == 2         \* calls in a history of calls
MaxLen == 2           \* characters in a name given to the constructor

----------------------------------------------------------------------------
(* JavaScript values *)

Null == [t |-> "null"]
Undefined == [t |-> "undefined"]
Bool(b) == [t |-> "boolean", b |-> b]
Obj(o) == [t |-> "object", o |-> o]
Arr(s) == [t |-> "array", a |-> s]
Str(s) == [t |-> "string", s |-> s]
Fn(f) == [t |-> "function", f |-> f]

\* an object with no own properties
Empty == [k \in {} |-> TRUE]

\* an Error object with the given own properties
Err(own) == [t |-> "error", own |-> own]

Num(n) == [t |-> "number", n |-> n]

\* the truth value JavaScript gives v in a condition
Truthy(v) ==
    CASE v.t \in {"null", "undefined"} -> FALSE
      [] v.t = "boolean" -> v.b
      [] v.t = "number" -> v.n # 0
      [] OTHER -> TRUE

\* !v
Falsy(v) == ~Truthy(v)

\* o[k]: a property that is not there reads as undefined
Prop(o, k) == IF k \in DOMAIN o THEN o[k] ELSE Undefined

\* the i-th argument of a call; a missing argument reads as undefined
Arg(a, i) == IF i <= Len(a) THEN a[i] ELSE Undefined

\* delete o[k]
deleteKey(o, k) == [f \in DOMAIN o \ {k} |-> o[f]]

\* Object.assign(a, b)
assign(a, b) ==
    [f \in DOMAIN a \cup DOMAIN b |-> IF f \in DOMAIN b THEN b[f] ELSE a[f]]

----------------------------------------------------------------------------
(* Name canonicalization *)

Slash == "/"

PROJECTS == <<"p", "r", "o", "j", "e", "c", "t", "s", "/">>
TOPICS == <<"/", "t", "o", "p", "i", "c", "s", "/">>

\* name.indexOf('/') > -1
hasSlash(n) == \E i \in 1..Len(n) : n[i] = Slash

\* a formatName_ that prefixes every name
formatNameAlways(p, n) == PROJECTS \o p \o TOPICS \o n

formatName_(p, n) ==
    IF hasSlash(n) THEN n ELSE PROJECTS \o p \o TOPICS \o n

----------------------------------------------------------------------------
(* Handles *)

\* the handle itself, as a value handed to callers and collaborators
This == [t |-> "Topic", id |-> "this", name |-> name]

\* pubsub.subscription(name, options): the owning context's subscription
\* constructor; the handle records what it was constructed from
pubsubSubscription(n, options) ==
    [t |-> "Subscription", name |-> n, options |-> options]

\* a subscription that lets a topic already named in the options stand
subscriptionKeepsTopic(n, options) ==
    LET o == IF Falsy(options) THEN Empty ELSE options.o
    IN  pubsubSubscription(n, assign([topic |-> This], o))

\* subscription(name, options)
subscription(n, options) ==
    LET o == IF Falsy(options) THEN Empty ELSE options.o
    IN  pubsubSubscription(n, assign(o, [topic |-> This]))

\* new Publisher(this, options)
Publisher(topic, options) ==
    [t |-> "Publisher", topic |-> topic, options |-> options]

\* publisher(options)
publisher(options) == Publisher(This, options)

----------------------------------------------------------------------------
(* Callbacks.  A callback is a function value Fn(c); c.f names the code    *)
(* of the function and the other fields are what its closure captured.     *)

\* the continuation the caller supplied
UserCallback == Fn([f |-> "user"])

\* util.noop
noop == Fn([f |-> "noop"])

\* the callback promisify appends when the caller gave none: it settles the
\* returned promise
PromiseCallback == Fn([f |-> "promise"])

\* how the promise settles from the arguments its callback received
settle(a) ==
    IF Len(a) > 0 /\ ~Falsy(a[1])
    THEN [state |-> "rejected", value |-> <<a[1]>>]
    ELSE [state |-> "fulfilled", value |-> IF Len(a) > 0 THEN Tail(a) ELSE <<>>]

\* promisifyAll(Topic, {exclude: ['publisher', 'subscription']}): the
\* arguments the method itself is called with
exclude == {"publisher", "subscription"}

\* a promisifyAll that leaves delete as it is written
promisifyAllButDelete(method, args) ==
    IF method \in exclude \cup {"delete"} THEN args
    ELSE IF Len(args) > 0 /\ args[Len(args)].t = "function" THEN args
    ELSE Append(args, PromiseCallback)

promisifyAll(method, args) ==
    IF method \in exclude THEN args
    ELSE IF Len(args) > 0 /\ args[Len(args)].t = "function" THEN args
    ELSE Append(args, PromiseCallback)

NOT_FOUND == 5

\* let code = 0; if (err.hasOwnProperty('code')) code = <its value>
codeOf(err) == IF "code" \in DOMAIN err.own THEN err.own.code ELSE Num(0)

\* a getMetadata closure that stores the response whatever the outcome
getMetadataCacheAlways(a, m) == Arg(a, 2)

\* a getMetadata closure that keeps the first response it cached
getMetadataCacheFirstWins(a, m) ==
    IF Falsy(Arg(a, 1)) /\ m = Undefined THEN Arg(a, 2) ELSE m

\* the closure of getMetadata: the cache after it ran
getMetadataCache(a, m) == IF Falsy(Arg(a, 1)) THEN Arg(a, 2) ELSE m

\* a getMetadata closure that hides a code 5 error from its callback
getMetadataArgsHidesNotFound(a) ==
    IF Truthy(Arg(a, 1)) /\ codeOf(Arg(a, 1)) = Num(NOT_FOUND)
    THEN <<Null, Arg(a, 2)>>
    ELSE <<Arg(a, 1), Arg(a, 2)>>

\* the closure of getMetadata: what it hands to its callback
getMetadataArgs(a) == <<Arg(a, 1), Arg(a, 2)>>

\* an exists closure that takes every failure for an absent topic
existsArgsAnyError(a) ==
    IF Falsy(Arg(a, 1)) THEN <<Null, Bool(TRUE)>> ELSE <<Null, Bool(FALSE)>>

\* the closure of exists: what it hands to its callback
existsArgs(a) ==
    LET err == Arg(a, 1)
    IN  IF Falsy(err) THEN <<Null, Bool(TRUE)>>
        ELSE IF codeOf(err) = Num(NOT_FOUND) THEN <<Null, Bool(FALSE)>>
        ELSE <<err>>

\* a get closure that never creates
getCreatesNever(a, autoCreate) == FALSE

\* a get closure that creates on every failure when autoCreate is set
getCreatesAnyError(a, autoCreate) == ~Falsy(Arg(a, 1)) /\ autoCreate

\* the closure of get: whether it goes on to create
getCreates(a, autoCreate) ==
    LET err == Arg(a, 1)
    IN  ~Falsy(err) /\ ~(codeOf(err) # Num(NOT_FOUND) \/ ~autoCreate)

\* the closure of get: what it hands to its callback when it does not create
getArgs(a) ==
    LET err == Arg(a, 1)
    IN  IF Falsy(err) THEN <<Null, This, Arg(a, 2)>>
        ELSE <<err, Null, Arg(a, 2)>>

\* a getSubscriptions closure that builds the handles last name first
getSubscriptionsMadeReversed(a) ==
    LET subscriptions == Arg(a, 2)
    IN  IF Falsy(subscriptions) THEN <<>>
        ELSE [i \in 1..Len(subscriptions.a) |->
                 subscription(subscriptions.a[Len(subscriptions.a) + 1 - i],
                              Undefined)]

\* the closure of getSubscriptions: the handles it constructs
getSubscriptionsMade(a) ==
    LET subscriptions == Arg(a, 2)
    IN  IF Falsy(subscriptions) THEN <<>>
        ELSE [i \in 1..Len(subscriptions.a) |->
                 subscription(subscriptions.a[i], Undefined)]

\* the closure of getSubscriptions: what it hands to its callback
getSubscriptionsArgs(a) ==
    IF Falsy(Arg(a, 2)) THEN a
    ELSE [a EXCEPT ![2] = Arr(getSubscriptionsMade(a))]

----------------------------------------------------------------------------
(* Asynchronous requests.  A request is what the handle passes to          *)
(* this.request (the RequestExecutor) or to a method of the owning PubSub  *)
(* object, together with the callback that is to receive the outcome.      *)

\* this.request(config, callback)
request(config, callback) ==
    [client |-> config.client, method |-> config.method,
     reqOpts |-> config.reqOpts, gaxOpts |-> config.gaxOpts,
     callback |-> callback]

\* this.pubsub.createTopic(name, gaxOpts, callback)
pubsubCreateTopic(n, gaxOpts, callback) ==
    [client |-> "pubsub", method |-> "createTopic",
     reqOpts |-> [name |-> Str(n)], gaxOpts |-> gaxOpts,
     callback |-> callback]

\* this.pubsub.createSubscription(topic, name, options, callback)
pubsubCreateSubscription(topic, n, options, callback) ==
    [client |-> "pubsub", method |-> "createSubscription",
     reqOpts |-> [topic |-> topic, name |-> n], gaxOpts |-> options,
     callback |-> callback]

----------------------------------------------------------------------------
(* The methods, up to the request each issues.  args are the arguments     *)
(* the method body receives (after promisifyAll).                          *)

create(args) ==
    LET gaxOptsOrCallback == Arg(args, 1)
        gaxOpts == IF gaxOptsOrCallback.t = "object"
                   THEN gaxOptsOrCallback.o ELSE Empty
        callback == IF gaxOptsOrCallback.t = "function"
                    THEN gaxOptsOrCallback ELSE Arg(args, 2)
    IN  pubsubCreateTopic(name, gaxOpts, callback)

createSubscription(args) ==
    LET optionsOrCallback == Arg(args, 2)
        options == IF optionsOrCallback.t = "object"
                   THEN optionsOrCallback.o ELSE Empty
        callback == IF optionsOrCallback.t = "function"
                    THEN optionsOrCallback ELSE Arg(args, 3)
    IN  pubsubCreateSubscription(This, Arg(args, 1), options, callback)

\* a delete that hands the cache-writing callback of getMetadata to its
\* request
deleteWritesCache(args) ==
    LET gaxOptsOrCallback == Arg(args, 1)
        callback == IF gaxOptsOrCallback.t = "function"
                    THEN gaxOptsOrCallback ELSE Arg(args, 2)
    IN  request([client |-> "PublisherClient", method |-> "deleteTopic",
                 reqOpts |-> [topic |-> Str(name)],
                 gaxOpts |-> IF gaxOptsOrCallback.t = "object"
                             THEN gaxOptsOrCallback.o ELSE Empty],
                Fn([f |-> "getMetadata", callback |-> callback]))

\* a delete that takes its callback from the first argument only
deleteFirstArgOnly(args) ==
    LET gaxOptsOrCallback == Arg(args, 1)
    IN  request([client |-> "PublisherClient", method |-> "deleteTopic",
                 reqOpts |-> [topic |-> Str(name)],
                 gaxOpts |-> IF gaxOptsOrCallback.t = "object"
                             THEN gaxOptsOrCallback.o ELSE Empty],
                IF gaxOptsOrCallback.t = "function"
                THEN gaxOptsOrCallback ELSE noop)

delete(args) ==
    LET gaxOptsOrCallback == Arg(args, 1)
        gaxOpts == IF gaxOptsOrCallback.t = "object"
                   THEN gaxOptsOrCallback.o ELSE Empty
        callback0 == IF gaxOptsOrCallback.t = "function"
                     THEN gaxOptsOrCallback ELSE Arg(args, 2)
        callback == IF Truthy(callback0) THEN callback0 ELSE noop
    IN  request([client |-> "PublisherClient", method |-> "deleteTopic",
                 reqOpts |-> [topic |-> Str(name)], gaxOpts |-> gaxOpts],
                callback)

\* a getMetadata that takes its callback from the second argument whatever
\* the first is
getMetadataNoShift(args) ==
    LET isFn == Arg(args, 1).t = "function"
        gaxOpts == IF isFn THEN Empty ELSE Arg(args, 1).o
    IN  request([client |-> "PublisherClient", method |-> "getTopic",
                 reqOpts |-> [topic |-> Str(name)], gaxOpts |-> gaxOpts],
                Fn([f |-> "getMetadata", callback |-> Arg(args, 2)]))

getMetadata(args) ==
    LET isFn == Arg(args, 1).t = "function"
        callback == IF isFn THEN Arg(args, 1) ELSE Arg(args, 2)
        gaxOpts == IF isFn THEN Empty ELSE Arg(args, 1).o
    IN  request([client |-> "PublisherClient", method |-> "getTopic",
                 reqOpts |-> [topic |-> Str(name)], gaxOpts |-> gaxOpts],
                Fn([f |-> "getMetadata", callback |-> callback]))

exists(args) ==
    getMetadata(promisifyAll("getMetadata",
        <<Fn([f |-> "exists", callback |-> Arg(args, 1)])>>))

\* a get that leaves autoCreate in the options
getOptionsKeepsAutoCreate(args) ==
    IF Arg(args, 1).t = "function" THEN Empty ELSE Arg(args, 1).o

\* get: the caller's options object after `delete gaxOpts.autoCreate`
getOptions(args) ==
    IF Arg(args, 1).t = "function" THEN Empty
    ELSE deleteKey(Arg(args, 1).o, "autoCreate")

get(args) ==
    LET isFn == Arg(args, 1).t = "function"
        callback == IF isFn THEN Arg(args, 1) ELSE Arg(args, 2)
        gaxOpts0 == IF isFn THEN Empty ELSE Arg(args, 1).o
        autoCreate == Truthy(Prop(gaxOpts0, "autoCreate"))
        gaxOpts == getOptions(args)
    IN  getMetadata(promisifyAll("getMetadata",
            <<Obj(gaxOpts),
              Fn([f |-> "get", callback |-> callback, gaxOpts |-> gaxOpts,
                  autoCreate |-> autoCreate])>>))

\* a getSubscriptions that leaves gaxOpts and autoPaginate in the payload
getSubscriptionsUnsplit(args) ==
    LET optionsOrCallback == Arg(args, 1)
        options == IF optionsOrCallback.t = "object"
                   THEN optionsOrCallback.o ELSE Empty
        callback == IF optionsOrCallback.t = "function"
                    THEN optionsOrCallback ELSE Arg(args, 2)
    IN  request([client |-> "PublisherClient",
                 method |-> "listTopicSubscriptions",
                 reqOpts |-> assign([topic |-> Str(name)], options),
                 gaxOpts |-> [autoPaginate |-> Prop(options, "autoPaginate")]],
                Fn([f |-> "getSubscriptions", callback |-> callback]))

getSubscriptions(args) ==
    LET optionsOrCallback == Arg(args, 1)
        options == IF optionsOrCallback.t = "object"
                   THEN optionsOrCallback.o ELSE Empty
        callback == IF optionsOrCallback.t = "function"
                    THEN optionsOrCallback ELSE Arg(args, 2)
        reqOpts == deleteKey(deleteKey(assign([topic |-> Str(name)], options),
                                       "gaxOpts"), "autoPaginate")
        gaxOpts == assign([autoPaginate |-> Prop(options, "autoPaginate")],
                          IF Truthy(Prop(options, "gaxOpts"))
                          THEN options.gaxOpts.o ELSE Empty)
    IN  request([client |-> "PublisherClient",
                 method |-> "listTopicSubscriptions",
                 reqOpts |-> reqOpts, gaxOpts |-> gaxOpts],
                Fn([f |-> "getSubscriptions", callback |-> callback]))

----------------------------------------------------------------------------
(* Running a callback.  The result is the effect of the synchronous run:   *)
(* the cache afterwards, what reached the caller (out), the subscription   *)
(* handles constructed on the way (made) and the request issued (next).    *)

\* the end of a chain of callbacks: who is invoked, with which arguments,
\* and the cache as it is at that moment (cache)
toCaller(cbv, a, m) ==
    CASE cbv.t # "function" ->
            [to |-> "TypeError", args |-> a, state |-> "none", value |-> <<>>,
             cache |-> m]
      [] cbv.t = "function" /\ cbv.f.f = "promise" ->
            [to |-> "promise", args |-> a, state |-> settle(a).state,
             value |-> settle(a).value, cache |-> m]
      [] cbv.t = "function" /\ cbv.f.f = "noop" ->
            [to |-> "noop", args |-> a, state |-> "none", value |-> <<>>,
             cache |-> m]
      [] OTHER ->
            [to |-> "callback", args |-> a, state |-> "none", value |-> <<>>,
             cache |-> m]

\* callbacks of which getMetadata's issues the fetch again when it failed
RECURSIVE runRetrying(_, _, _)
runRetrying(cbv, a, m) ==
    IF cbv.t # "function" \/ cbv.f.f \in {"user", "promise", "noop"}
    THEN [metadata |-> m, out |-> <<toCaller(cbv, a, m)>>, made |-> <<>>,
          next |-> <<>>]
    ELSE LET c == cbv.f IN
         CASE c.f = "getMetadata" ->
                IF Truthy(Arg(a, 1))
                THEN [metadata |-> m, out |-> <<>>, made |-> <<>>,
                      next |-> <<getMetadata(<<c.callback>>)>>]
                ELSE runRetrying(c.callback, getMetadataArgs(a),
                                 getMetadataCache(a, m))
           [] c.f = "exists" ->
                runRetrying(c.callback, existsArgs(a), m)
           [] c.f = "get" ->
                IF getCreates(a, c.autoCreate)
                THEN [metadata |-> m, out |-> <<>>, made |-> <<>>,
                      next |-> <<create(promisifyAll("create",
                                    <<Obj(c.gaxOpts), c.callback>>))>>]
                ELSE runRetrying(c.callback, getArgs(a), m)
           [] c.f = "getSubscriptions" ->
                [runRetrying(c.callback, getSubscriptionsArgs(a), m)
                    EXCEPT !.made = getSubscriptionsMade(a)]

\* callbacks of which exists's goes on after it has answered false
RECURSIVE runFallsThrough(_, _, _)
runFallsThrough(cbv, a, m) ==
    IF cbv.t # "function" \/ cbv.f.f \in {"user", "promise", "noop"}
    THEN [metadata |-> m, out |-> <<toCaller(cbv, a, m)>>, made |-> <<>>,
          next |-> <<>>]
    ELSE LET c == cbv.f IN
         CASE c.f = "getMetadata" ->
                runFallsThrough(c.callback, getMetadataArgs(a),
                                getMetadataCache(a, m))
           [] c.f = "exists" ->
                LET first == runFallsThrough(c.callback, existsArgs(a), m)
                IN  IF Truthy(Arg(a, 1)) /\ codeOf(Arg(a, 1)) = Num(NOT_FOUND)
                    THEN [first EXCEPT !.out = first.out \o
                            runFallsThrough(c.callback, <<Arg(a, 1)>>, m).out]
                    ELSE first
           [] c.f = "get" ->
                IF getCreates(a, c.autoCreate)
                THEN [metadata |-> m, out |-> <<>>, made |-> <<>>,
                      next |-> <<create(promisifyAll("create",
                                    <<Obj(c.gaxOpts), c.callback>>))>>]
                ELSE runFallsThrough(c.callback, getArgs(a), m)
           [] c.f = "getSubscriptions" ->
                [runFallsThrough(c.callback, getSubscriptionsArgs(a), m)
                    EXCEPT !.made = getSubscriptionsMade(a)]

RECURSIVE run(_, _, _)
run(cbv, a, m) ==
    IF cbv.t # "function" \/ cbv.f.f \in {"user", "promise", "noop"}
    THEN [metadata |-> m, out |-> <<toCaller(cbv, a, m)>>, made |-> <<>>,
          next |-> <<>>]
    ELSE LET c == cbv.f IN
         CASE c.f = "getMetadata" ->
                run(c.callback, getMetadataArgs(a), getMetadataCache(a, m))
           [] c.f = "exists" ->
                run(c.callback, existsArgs(a), m)
           [] c.f = "get" ->
                IF getCreates(a, c.autoCreate)
                THEN [metadata |-> m, out |-> <<>>, made |-> <<>>,
                      next |-> <<create(promisifyAll("create",
                                    <<Obj(c.gaxOpts), c.callback>>))>>]
                ELSE run(c.callback, getArgs(a), m)
           [] c.f = "getSubscriptions" ->
                [run(c.callback, getSubscriptionsArgs(a), m)
                    EXCEPT !.made = getSubscriptionsMade(a)]

----------------------------------------------------------------------------
(* What callers pass and what the remote side answers *)

\* errors: code 5 (NOT_FOUND), another code, and an error with no code field
Errors == {Err([code |-> Num(NOT_FOUND)]), Err([code |-> Num(NOT_FOUND + 2)]),
           Err(Empty)}

\* a failed request completes with the error alone or with a null response
Failures == {<<e>> : e \in Errors} \cup {<<Err(Empty), Null>>}

Metadatas == {Obj([rev |-> Num(1)]), Obj([rev |-> Num(2)])}

SubNames == {<<"a">>, <<"b">>}

Pages == UNION {[1..n -> {Str(x) : x \in SubNames}] : n \in 0..MaxPage}

NextQueries == {Null, Obj([pageToken |-> Str(<<"n">>)])}

\* the topic handle pubsub.createTopic constructs and hands back
CreatedTopic == [t |-> "Topic", id |-> "created", name |-> name]

\* the outcomes of a request, by method
Responses(method) ==
    CASE method = "getTopic" ->
            {<<Null, m>> : m \in Metadatas} \cup Failures
      [] method = "deleteTopic" ->
            {<<Null, Obj(Empty)>>} \cup Failures
      [] method = "listTopicSubscriptions" ->
            {<<Null, Arr(pg), q, Obj(Empty)>> : pg \in Pages, q \in NextQueries}
            \cup Failures
            \cup {<<Err([code |-> Num(NOT_FOUND)]), Null, Null, Obj(Empty)>>}
      [] method = "createTopic" ->
            {<<Null, CreatedTopic, m>> : m \in Metadatas}
            \cup {<<e, Null, Null>> : e \in Errors}
      [] method = "createSubscription" ->
            {<<Null, pubsubSubscription(Str(x), [topic |-> This]), Obj(Empty)>> :
                x \in SubNames}
            \cup {<<e, Null, Null>> : e \in Errors}

\* call options a caller may pass
GaxInputs == {Empty, [timeout |-> Num(10)]}

GetInputs == GaxInputs \cup
    {[autoCreate |-> Bool(TRUE)], [autoCreate |-> Bool(FALSE)],
     [autoCreate |-> Bool(TRUE), timeout |-> Num(10)]}

ListInputs == {Empty, [pageSize |-> Num(1)]}

\* the shapes of a call: (), (callback), (options), (options, callback)
Shapes(inputs) ==
    {<<>>, <<UserCallback>>} \cup {<<Obj(o)>> : o \in inputs}
    \cup {<<Obj(o), UserCallback>> : o \in inputs}

----------------------------------------------------------------------------
(* The state machine.  JavaScript runs one handler at a time, to its end:  *)
(* a step is one turn of the event loop, either a call of a public method  *)
(* (up to the point where it has issued its request and returned) or the   *)
(* completion of a pending request (its callback chain runs).  event holds *)
(* what the turn in progress has put out; EndTurn ends the turn.           *)

NoEvent == [kind |-> "idle"]

\* the record of a turn: the call made or the request completed, and what
\* the turn handed to the caller, constructed and issued
Event(kind, op, args, after, done, resp, e, issued, nReq, nCreate) ==
    [kind |-> kind, op |-> op, args |-> args, after |-> after,
     done |-> done, resp |-> resp, out |-> e.out, made |-> e.made,
     issued |-> issued, nReq |-> nReq, nCreate |-> nCreate]

NoEffect == [metadata |-> metadata, out |-> <<>>, made |-> <<>>, next |-> <<>>]

isRequest(r) == IF r.client = "PublisherClient" THEN 1 ELSE 0
isCreate(r) == IF r.method = "createTopic" THEN 1 ELSE 0

\* a pending request, with the public call it belongs to and the number of
\* requests and of creates that call has issued so far
Pending(op, req, nReq, nCreate) ==
    [op |-> op, req |-> req, nReq |-> nReq, nCreate |-> nCreate]

Init ==
    /\ projectId = <<"p">>
    /\ topicName = <<"t">>
    /\ name = formatName_(projectId, topicName)
    /\ metadata = Undefined
    /\ inflight = EmptyBag
    /\ event = NoEvent
    /\ kept = Empty
    /\ history = <<>>

\* a public asynchronous method is called and issues its request
Issue(op, args, after, req) ==
    /\ event = NoEvent
    /\ BagCardinality(inflight) < MaxInFlight
    /\ inflight' = inflight (+)
            SetToBag({Pending(op, req, isRequest(req), isCreate(req))})
    /\ event' = Event("call", op, args, after, <<>>, <<>>, NoEffect,
                      <<req>>, isRequest(req), isCreate(req))
    /\ UNCHANGED <<projectId, topicName, name, metadata>>

\* the call is given arguments of its own: nothing the caller keeps is
\* touched
Start(op, args, after, req) ==
    Issue(op, args, after, req) /\ UNCHANGED <<kept, history>>

CallCreate ==
    \E args \in Shapes(GaxInputs) :
        Start("create", args, args, create(promisifyAll("create", args)))

CallCreateSubscription ==
    \E rest \in Shapes(GaxInputs) :
        LET args == <<Str(<<"a">>)>> \o rest
        IN  Start("createSubscription", args, args,
                  createSubscription(promisifyAll("createSubscription", args)))

CallDelete ==
    \E args \in Shapes(GaxInputs) :
        Start("delete", args, args, delete(promisifyAll("delete", args)))

CallExists ==
    \E args \in {<<>>, <<UserCallback>>} :
        Start("exists", args, args, exists(promisifyAll("exists", args)))

CallGet ==
    \E args \in Shapes(GetInputs) :
        LET body == promisifyAll("get", args)
            after == IF Arg(args, 1).t = "object"
                     THEN [args EXCEPT ![1] = Obj(getOptions(body))]
                     ELSE args
        IN  Start("get", args, after, get(body))

CallGetMetadata ==
    \E args \in Shapes(GaxInputs) :
        Start("getMetadata", args, args,
              getMetadata(promisifyAll("getMetadata", args)))

\* the method as written; the wrapper paginator.extend puts around it, which
\* calls it once for every page, is not part of the model
CallGetSubscriptions ==
    \E args \in Shapes(ListInputs) :
        Start("getSubscriptions", args, args,
              getSubscriptions(promisifyAll("getSubscriptions", args)))

\* a public synchronous method is called and returns what it constructed
Make(op, args, after, made) ==
    /\ event = NoEvent
    /\ event' = Event("sync", op, args, after, <<>>, <<>>,
                      [NoEffect EXCEPT !.made = <<made>>], <<>>, 0, 0)
    /\ UNCHANGED <<projectId, topicName, name, metadata, inflight>>

\* publisher(options): construction only
CallPublisher ==
    \E o \in {Undefined, Obj([batching |-> Obj([maxMessages |-> Num(1)])])} :
        /\ Make("publisher", <<o>>, <<o>>, publisher(o))
        /\ UNCHANGED <<kept, history>>

\* subscription(name, options): construction only; options.topic = this is
\* written into the caller's object when one was given
CallSubscription ==
    \E n \in SubNames,
       o \in {Undefined, Obj(Empty), Obj([topic |-> Str(<<"o">>)])} :
        LET made == subscription(Str(n), o)
            after == IF Falsy(o) THEN o ELSE Obj(made.options)
        IN  /\ Make("subscription", <<Str(n), o>>, <<Str(n), after>>, made)
            /\ UNCHANGED <<kept, history>>

\* the pending request p completes with outcome a: its callback runs
Finish(p, a) ==
    LET e == run(p.req.callback, a, metadata)
        nReq == p.nReq + (IF e.next = <<>> THEN 0 ELSE isRequest(e.next[1]))
        nCreate == p.nCreate + (IF e.next = <<>> THEN 0 ELSE isCreate(e.next[1]))
        next == IF e.next = <<>> THEN EmptyBag
                ELSE SetToBag({Pending(p.op, e.next[1], nReq, nCreate)})
    IN  /\ event = NoEvent
        /\ metadata' = e.metadata
        /\ inflight' = (inflight (-) SetToBag({p})) (+) next
        /\ event' = Event("done", p.op, <<>>, <<>>, <<p.req>>, a, e,
                          e.next, nReq, nCreate)
        /\ UNCHANGED <<projectId, topicName, name>>

Complete(p, a) == Finish(p, a) /\ UNCHANGED <<kept, history>>

\* the RequestExecutor completes a request
RequestDone ==
    \E p \in BagToSet(inflight) :
        /\ p.req.client = "PublisherClient"
        /\ \E a \in Responses(p.req.method) : Complete(p, a)

\* pubsub.createTopic completes
CreateTopicDone ==
    \E p \in BagToSet(inflight) :
        /\ p.req.method = "createTopic"
        /\ \E a \in Responses("createTopic") : Complete(p, a)

\* pubsub.createSubscription completes
CreateSubscriptionDone ==
    \E p \in BagToSet(inflight) :
        /\ p.req.method = "createSubscription"
        /\ \E a \in Responses("createSubscription") : Complete(p, a)

\* the turn ends
EndTurn ==
    /\ event # NoEvent
    /\ event' = NoEvent
    /\ UNCHANGED <<projectId, topicName, name, metadata, inflight, kept,
                   history>>

Next ==
    \/ CallCreate
    \/ CallCreateSubscription
    \/ CallDelete
    \/ CallExists
    \/ CallGet
    \/ CallGetMetadata
    \/ CallGetSubscriptions
    \/ CallPublisher
    \/ CallSubscription
    \/ RequestDone
    \/ CreateTopicDone
    \/ CreateSubscriptionDone
    \/ EndTurn

Spec == Init /\ [][Next]_vars

----------------------------------------------------------------------------
(* Name canonicalization on its own: the constructor applied to every      *)
(* project id and name within the bounds, and to a name that is already    *)
(* canonical.                                                              *)

RECURSIVE Strings(_, _)
Strings(chars, n) ==
    IF n = 0 THEN {<<>>}
    ELSE Strings(chars, n - 1) \cup
         {Append(x, c) : x \in Strings(chars, n - 1), c \in chars}

ProjectIds == Strings({"p", "q"}, MaxLen) \ {<<>>}

Names == Strings({"a", "b", "/"}, MaxLen)

NotConstructed == <<"?">>

InitName ==
    /\ projectId \in ProjectIds
    /\ topicName \in Names
    /\ name = NotConstructed
    /\ metadata = Undefined
    /\ inflight = EmptyBag
    /\ event = NoEvent
    /\ kept = Empty
    /\ history = <<>>

\* new Topic(pubsub, name)
Construct ==
    /\ name = NotConstructed
    /\ name' = formatName_(projectId, topicName)
    /\ UNCHANGED <<projectId, topicName, metadata, inflight, event, kept,
                   history>>

\* new Topic(pubsub, topic.name): a handle made from a handle's name
Reconstruct ==
    /\ name # NotConstructed
    /\ topicName' = name
    /\ name' = formatName_(projectId, name)
    /\ UNCHANGED <<projectId, metadata, inflight, event, kept, history>>

NextName == Construct \/ Reconstruct

SpecName == InitName /\ [][NextName]_vars

----------------------------------------------------------------------------
(* Concurrent fetches with their order kept: getMetadata, exists and get   *)
(* are called on one handle and their getTopic requests complete in any    *)
(* order; history holds the calls and the completions as they happen.      *)

\* the number of calls in the history h
Calls(h) == Cardinality({i \in 1..Len(h) : h[i].kind = "call"})

\* the history after a call of op
Called_(h, op) == Append(h, [kind |-> "call", op |-> op])

\* the history after a getTopic request of a call of op completed with a:
\* got is the response of a successful fetch, null for a failed one
Fetched(h, op, a) ==
    Append(h, [kind |-> "done", op |-> op,
               got |-> IF Falsy(Arg(a, 1)) THEN Arg(a, 2) ELSE Null])

FetchGetMetadata ==
    /\ Calls(history) < MaxCalls
    /\ Issue("getMetadata", <<UserCallback>>, <<UserCallback>>,
             getMetadata(promisifyAll("getMetadata", <<UserCallback>>)))
    /\ history' = Called_(history, "getMetadata")
    /\ UNCHANGED kept

FetchExists ==
    /\ Calls(history) < MaxCalls
    /\ Issue("exists", <<UserCallback>>, <<UserCallback>>,
             exists(promisifyAll("exists", <<UserCallback>>)))
    /\ history' = Called_(history, "exists")
    /\ UNCHANGED kept

FetchGet ==
    \E args \in {<<UserCallback>>,
                 <<Obj([autoCreate |-> Bool(TRUE)]), UserCallback>>} :
        /\ Calls(history) < MaxCalls
        /\ Issue("get", args, args, get(promisifyAll("get", args)))
        /\ history' = Called_(history, "get")
        /\ UNCHANGED kept

\* the getTopic request of one of the calls completes
FetchDone ==
    \E p \in BagToSet(inflight) :
        /\ p.req.method = "getTopic"
        /\ \E a \in Responses("getTopic") :
              /\ Finish(p, a)
              /\ history' = Fetched(history, p.op, a)
              /\ UNCHANGED kept

NextFetch ==
    \/ FetchGetMetadata
    \/ FetchExists
    \/ FetchGet
    \/ FetchDone
    \/ CreateTopicDone
    \/ EndTurn

SpecFetch == Init /\ [][NextFetch]_vars

----------------------------------------------------------------------------
(* A caller that keeps one options object and passes it to call after      *)
(* call: what a method does to the object it is given is there for the     *)
(* next call.  history holds the calls with the object as it was passed.   *)

\* the objects the caller starts with
KeptInputs ==
    {Empty,
     [autoCreate |-> Bool(TRUE)],
     [autoCreate |-> Bool(TRUE), timeout |-> Num(10)],
     [pageSize |-> Num(1), autoPaginate |-> Bool(FALSE),
      gaxOpts |-> Obj([timeout |-> Num(10)])],
     [autoPaginate |-> Bool(FALSE),
      gaxOpts |-> Obj([autoPaginate |-> Bool(TRUE)])],
     [topic |-> Str(<<"o">>)]}

\* the history after a call of op that was passed the object o
CalledWith(h, op, o) == Append(h, [kind |-> "call", op |-> op, given |-> o])

InitKept ==
    /\ projectId = <<"p">>
    /\ topicName = <<"t">>
    /\ name = formatName_(projectId, topicName)
    /\ metadata = Undefined
    /\ inflight = EmptyBag
    /\ event = NoEvent
    /\ kept \in KeptInputs
    /\ history = <<>>

\* get(options) and get(options, callback) with the kept object
KeptGet ==
    \E args \in {<<Obj(kept)>>, <<Obj(kept), UserCallback>>} :
        LET body == promisifyAll("get", args)
            after == [args EXCEPT ![1] = Obj(getOptions(body))]
        IN  /\ Calls(history) < MaxCalls
            /\ Issue("get", args, after, get(body))
            /\ kept' = getOptions(body)
            /\ history' = CalledWith(history, "get", kept)

\* getSubscriptions(options, callback) with the kept object: the payload
\* and the call options are objects of their own
KeptGetSubscriptions ==
    LET args == <<Obj(kept), UserCallback>>
    IN  /\ Calls(history) < MaxCalls
        /\ Issue("getSubscriptions", args, args,
                 getSubscriptions(promisifyAll("getSubscriptions", args)))
        /\ kept' = kept
        /\ history' = CalledWith(history, "getSubscriptions", kept)

\* subscription(name, options) with the kept object
KeptSubscription ==
    LET made == subscription(Str(<<"a">>), Obj(kept))
    IN  /\ Calls(history) < MaxCalls
        /\ Make("subscription", <<Str(<<"a">>), Obj(kept)>>,
                <<Str(<<"a">>), Obj(made.options)>>, made)
        /\ kept' = made.options
        /\ history' = CalledWith(history, "subscription", kept)

NextKept ==
    \/ KeptGet
    \/ KeptGetSubscriptions
    \/ KeptSubscription
    \/ RequestDone
    \/ CreateTopicDone
    \/ EndTurn

SpecKept == InitKept /\ [][NextKept]_vars

----------------------------------------------------------------------------
(* Get-or-create against a remote service that keeps the topic: the topic  *)
(* is absent until a create succeeds; a fetch of the absent topic fails    *)
(* with NOT_FOUND and with nothing else, a create of the present topic     *)
(* fails with the already-exists error and with nothing else.  A request   *)
(* is served when it completes.  history holds the calls, the fetches and  *)
(* the creates as they happen.                                             *)

\* the code of the error a create of a present topic fails with
ALREADY_EXISTS == 6

\* the topic is present on the remote side: a create has succeeded
Present(h) == \E i \in 1..Len(h) : h[i].kind = "created"

\* what the remote side answers a fetch
RemoteFetch(h) ==
    IF Present(h) THEN <<Null, Obj([rev |-> Num(1)])>>
    ELSE <<Err([code |-> Num(NOT_FOUND)])>>

\* what the remote side answers a create
RemoteCreate(h) ==
    IF Present(h) THEN <<Err([code |-> Num(ALREADY_EXISTS)]), Null, Null>>
    ELSE <<Null, CreatedTopic, Obj([rev |-> Num(1)])>>

\* the history after a create was answered with a
Created(h, op, a) ==
    Append(h, [kind |-> IF Falsy(Arg(a, 1)) THEN "created" ELSE "conflict",
               op |-> op])

\* get(options) and get(options, callback), the options having autoCreate
\* true
RemoteGet ==
    \E args \in {a \in Shapes(GetInputs) :
                    /\ Arg(a, 1).t = "object"
                    /\ Prop(a[1].o, "autoCreate") = Bool(TRUE)} :
        LET body == promisifyAll("get", args)
            after == [args EXCEPT ![1] = Obj(getOptions(body))]
        IN  /\ Calls(history) < MaxCalls
            /\ Issue("get", args, after, get(body))
            /\ history' = Called_(history, "get")
            /\ UNCHANGED kept

\* the remote side answers the getTopic request of one of the calls
RemoteFetchDone ==
    \E p \in BagToSet(inflight) :
        /\ p.req.method = "getTopic"
        /\ Finish(p, RemoteFetch(history))
        /\ history' = Fetched(history, p.op, RemoteFetch(history))
        /\ UNCHANGED kept

\* the remote side answers the create of one of the calls
RemoteCreateDone ==
    \E p \in BagToSet(inflight) :
        /\ p.req.method = "createTopic"
        /\ Finish(p, RemoteCreate(history))
        /\ history' = Created(history, p.op, RemoteCreate(history))
        /\ UNCHANGED kept

NextRemote ==
    \/ RemoteGet
    \/ RemoteFetchDone
    \/ RemoteCreateDone
    \/ EndTurn

SpecRemote == Init /\ [][NextRemote]_vars

----------------------------------------------------------------------------
(* Reading a turn's record *)

\* the turn completed a request of the given method for a call of op
Done(op, method) ==
    /\ event.kind = "done"
    /\ event.op = op
    /\ event.done[1].method = method

\* the turn was a call of op
Called(op) == event.kind = "call" /\ event.op = op

\* the error the request completed with (null when it succeeded)
RespErr == Arg(event.resp, 1)

\* the request completed with an error carrying the own field code = c
FailedWith(c) ==
    /\ RespErr.t = "error"
    /\ "code" \in DOMAIN RespErr.own
    /\ RespErr.own.code = Num(c)

\* the request completed with an error that does not carry code = c
FailedOtherThan(c) == RespErr.t = "error" /\ ~FailedWith(c)

\* what the caller got out of delivery d: the error (null when there is
\* none) and the results, whether through its callback or its promise
Received(d) ==
    CASE d.to = "callback" ->
            [err |-> Arg(d.args, 1),
             results |-> IF Len(d.args) > 0 THEN Tail(d.args) ELSE <<>>]
      [] d.to = "promise" /\ d.state = "rejected" ->
            [err |-> d.value[1], results |-> <<>>]
      [] d.to = "promise" /\ d.state = "fulfilled" ->
            [err |-> Null, results |-> d.value]
      [] OTHER -> [err |-> Undefined, results |-> <<>>]

\* the caller got exactly one delivery in this turn, through the callback
\* it gave or the promise it was returned
Delivered ==
    Len(event.out) = 1 /\ event.out[1].to \in {"callback", "promise"}

\* the closure the code wrapped around the continuation of the completed
\* request, one level in (the callback getMetadata was given)
InnerClosure == event.done[1].callback.f.callback.f

\* the options get was called with (empty when it was given none)
GetOptionsGiven ==
    IF Arg(event.args, 1).t = "object" THEN event.args[1].o ELSE Empty

\* the closure of get inside the request the turn issued
IssuedGetClosure == event.issued[1].callback.f.callback.f

----------------------------------------------------------------------------
(* C1: exists(): when the metadata fetch succeeds the caller receives (no  *)
(* error, true); when it fails with an error whose code field is 5 the     *)
(* caller receives (no error, false); when it fails with any other code or *)
(* with an error that has no code field the caller receives that same      *)
(* error and no boolean.                                                   *)
C1_ExistsOutcome ==
    Done("exists", "getTopic") =>
        /\ Delivered
        /\ event.issued = <<>>
        /\ Falsy(RespErr) =>
              Received(event.out[1]) = [err |-> Null, results |-> <<Bool(TRUE)>>]
        /\ FailedWith(5) =>
              Received(event.out[1]) = [err |-> Null, results |-> <<Bool(FALSE)>>]
        /\ FailedOtherThan(5) =>
              Received(event.out[1]) = [err |-> RespErr, results |-> <<>>]

\* exists answered false on a fetch that failed with code 5
C1_Witness ==
    /\ Done("exists", "getTopic")
    /\ FailedWith(5)
    /\ Received(event.out[1]).results = <<Bool(FALSE)>>

\* exists passed on an error that has no code field
C1_WitnessNoCode ==
    /\ Done("exists", "getTopic")
    /\ RespErr.t = "error" /\ RespErr.own = Empty
    /\ Received(event.out[1]).err = RespErr

----------------------------------------------------------------------------
(* C2: get with autoCreate true on a missing topic (the fetch fails with   *)
(* code 5) invokes create exactly once, after the failed fetch and with    *)
(* the remaining options, and the caller receives create's outcome (its    *)
(* error, or its topic and response) instead of the NOT_FOUND error.       *)
C2_AutoCreate ==
    \* the call: autoCreate and the remaining options are what get captures,
    \* and nothing is created before the fetch has failed
    /\ Called("get") =>
          /\ event.issued[1].method = "getTopic"
          /\ event.nCreate = 0
          /\ IssuedGetClosure.autoCreate =
                (Prop(GetOptionsGiven, "autoCreate") = Bool(TRUE))
          /\ IssuedGetClosure.gaxOpts =
                [k \in DOMAIN GetOptionsGiven \ {"autoCreate"} |->
                    GetOptionsGiven[k]]
    \* the fetch fails with code 5: one create, with the remaining options,
    \* and nothing reaches the caller yet
    /\ (Done("get", "getTopic") /\ FailedWith(5) /\ InnerClosure.autoCreate) =>
          /\ event.out = <<>>
          /\ Len(event.issued) = 1
          /\ event.issued[1].method = "createTopic"
          /\ event.issued[1].reqOpts = [name |-> Str(name)]
          /\ event.issued[1].gaxOpts = InnerClosure.gaxOpts
          /\ event.issued[1].callback = InnerClosure.callback
          /\ event.nCreate = 1
    \* create completes: its outcome is the caller's, and no second create
    /\ Done("get", "createTopic") =>
          /\ Delivered
          /\ event.out[1].args = event.resp
          /\ Received(event.out[1]) =
                IF Falsy(RespErr)
                THEN [err |-> Null, results |-> Tail(event.resp)]
                ELSE [err |-> RespErr,
                      results |-> IF event.out[1].to = "callback"
                                  THEN Tail(event.resp) ELSE <<>>]
          /\ event.issued = <<>>
          /\ event.nCreate = 1
          /\ event.nReq = 1

\* a get that created after a failed fetch handed create's topic to its caller
C2_Witness ==
    /\ Done("get", "createTopic")
    /\ Falsy(RespErr)
    /\ Received(event.out[1]).results[1] = CreatedTopic

\* a get whose create failed handed create's error to its caller
C2_WitnessError ==
    /\ Done("get", "createTopic")
    /\ ~Falsy(RespErr)
    /\ Received(event.out[1]).err = RespErr

----------------------------------------------------------------------------
(* C3: get never invokes create unless the fetch failed with code 5 and    *)
(* autoCreate was true.  When the fetch succeeds the caller receives (no   *)
(* error, this handle, the raw response); when it fails with code 5 and    *)
(* autoCreate is false or absent, or with any other code even when         *)
(* autoCreate is true, the caller receives that same error with a null     *)
(* handle and no create request is issued.                                 *)
C3_GetWithoutCreate ==
    /\ Called("get") =>
          /\ event.issued[1].method # "createTopic"
          /\ Prop(GetOptionsGiven, "autoCreate") \in {Undefined, Bool(FALSE)}
                => ~IssuedGetClosure.autoCreate
    /\ Done("get", "getTopic") =>
          /\ event.issued # <<>> => FailedWith(5) /\ InnerClosure.autoCreate
          /\ Falsy(RespErr) =>
                /\ Delivered
                /\ event.out[1].args = <<Null, This, Arg(event.resp, 2)>>
                /\ Received(event.out[1]).err = Null
                /\ event.nCreate = 0
          /\ (FailedOtherThan(5) \/ (FailedWith(5) /\ ~InnerClosure.autoCreate)) =>
                /\ Delivered
                /\ event.out[1].args[1] = RespErr
                /\ event.out[1].args[2] = Null
                /\ Received(event.out[1]).err = RespErr
                /\ event.issued = <<>>
                /\ event.nCreate = 0

\* a get with autoCreate set passed on an error of another code, creating
\* nothing
C3_Witness ==
    /\ Done("get", "getTopic")
    /\ InnerClosure.autoCreate
    /\ FailedOtherThan(5)
    /\ event.issued = <<>>
    /\ Received(event.out[1]).err = RespErr

\* a get without autoCreate passed on the code 5 error
C3_WitnessNotFound ==
    /\ Done("get", "getTopic")
    /\ ~InnerClosure.autoCreate
    /\ FailedWith(5)
    /\ Received(event.out[1]).err = RespErr

\* a get whose fetch succeeded handed over this handle
C3_WitnessFound ==
    /\ Done("get", "getTopic")
    /\ Falsy(RespErr)
    /\ Received(event.out[1]).results = <<This, event.resp[2]>>

----------------------------------------------------------------------------
(* C4: getMetadata: when the fetch succeeds, the cache equals the exact    *)
(* response payload when the caller's completion is invoked; when the      *)
(* fetch fails, the cache is as it was before the call (a cached payload   *)
(* is kept, an absent cache stays absent) and the error is delivered       *)
(* unchanged.                                                              *)
C4_MetadataCache ==
    [][Done("getMetadata", "getTopic")' =>
          /\ Delivered'
          /\ Falsy(RespErr)' =>
                /\ metadata' = Arg(event'.resp, 2)
                /\ event'.out[1].cache = Arg(event'.resp, 2)
                /\ event'.out[1].args = <<RespErr', metadata'>>
                /\ Received(event'.out[1]) =
                      [err |-> Null, results |-> <<metadata'>>]
          /\ ~Falsy(RespErr)' =>
                /\ metadata' = metadata
                /\ event'.out[1].cache = metadata
                /\ event'.out[1].args[1] = RespErr'
                /\ Received(event'.out[1]).err = RespErr']_vars

\* a successful getMetadata cached the payload it was answered with
C4_Witness ==
    /\ Done("getMetadata", "getTopic")
    /\ Falsy(RespErr)
    /\ metadata = event.resp[2]
    /\ metadata = Obj([rev |-> Num(2)])

\* a failed getMetadata completed with a payload still cached
C4_WitnessKept ==
    /\ Done("getMetadata", "getTopic")
    /\ ~Falsy(RespErr)
    /\ metadata \in Metadatas

----------------------------------------------------------------------------
(* The two modes of a call side by side *)

\* the method bodies by name
Method(op, args) ==
    CASE op = "create" -> create(args)
      [] op = "createSubscription" -> createSubscription(args)
      [] op = "delete" -> delete(args)
      [] op = "exists" -> exists(args)
      [] op = "get" -> get(args)
      [] op = "getMetadata" -> getMetadata(args)
      [] op = "getSubscriptions" -> getSubscriptions(args)

\* the continuation at the end of a chain of callbacks
RECURSIVE Innermost(_)
Innermost(cbv) ==
    IF cbv.t # "function" THEN "none"
    ELSE IF cbv.f.f \in {"user", "promise", "noop"} THEN cbv.f.f
    ELSE Innermost(cbv.f.callback)

\* the same chain of callbacks, ending in the caller's callback where it
\* ended in the promise's
RECURSIVE WithCallback(_)
WithCallback(cbv) ==
    IF cbv.t # "function" THEN cbv
    ELSE IF cbv.f.f = "promise" THEN UserCallback
    ELSE IF cbv.f.f \in {"user", "noop"} THEN cbv
    ELSE Fn([cbv.f EXCEPT !.callback = WithCallback(cbv.f.callback)])

ReqWithCallback(r) == [r EXCEPT !.callback = WithCallback(r.callback)]

\* the call was made without a callback
NoCallbackGiven ==
    Len(event.args) = 0 \/ event.args[Len(event.args)].t # "function"

----------------------------------------------------------------------------
(* C5: dual-mode equivalence.  For every public asynchronous operation and *)
(* the same server responses, the call with (options, callback) and the    *)
(* call with (options) whose promise is awaited have equivalent outcomes:  *)
(* the promise fails with the error the callback would have received as    *)
(* first argument and otherwise succeeds with the results the callback     *)
(* would have received.                                                    *)
C5_DualMode ==
    \* called without a callback, the operation issues the request it issues
    \* when called with one, the promise standing in for the callback
    /\ (event.kind = "call" /\ NoCallbackGiven) =>
          /\ Innermost(event.issued[1].callback) = "promise"
          /\ ReqWithCallback(event.issued[1]) =
                Method(event.op,
                       promisifyAll(event.op, Append(event.args, UserCallback)))
    /\ (event.kind = "call" /\ ~NoCallbackGiven) =>
          Innermost(event.issued[1].callback) = "user"
    \* a completion in promise mode does what the same completion does in
    \* callback mode, and settles the promise from the callback's arguments
    /\ (event.kind = "done" /\ Innermost(event.done[1].callback) = "promise") =>
          LET twin == run(WithCallback(event.done[1].callback), event.resp,
                          metadata)
          IN  /\ twin.metadata = metadata
              /\ twin.made = event.made
              /\ Len(twin.next) = Len(event.issued)
              /\ twin.next # <<>> =>
                    twin.next[1] = ReqWithCallback(event.issued[1])
              /\ Len(twin.out) = Len(event.out)
              /\ twin.out # <<>> =>
                    LET cb == twin.out[1].args
                        d == event.out[1]
                    IN  /\ twin.out[1].to = "callback"
                        /\ d.to = "promise"
                        /\ d.args = cb
                        /\ Truthy(Arg(cb, 1)) =>
                              d.state = "rejected" /\ d.value = <<cb[1]>>
                        /\ Falsy(Arg(cb, 1)) =>
                              d.state = "fulfilled" /\ d.value = Tail(cb)
    /\ (event.kind = "done" /\ Innermost(event.done[1].callback) = "user") =>
          \A i \in 1..Len(event.out) : event.out[i].to = "callback"
    /\ event.kind = "done" =>
          Innermost(event.done[1].callback) \in {"user", "promise"}

\* a delete called without a callback failed, and its promise was rejected
\* with the error of the request
C5_Witness ==
    /\ Done("delete", "deleteTopic")
    /\ ~Falsy(RespErr)
    /\ event.out[1].to = "promise"
    /\ event.out[1].state = "rejected"
    /\ event.out[1].value = <<RespErr>>

\* a get called without a callback found the topic, and its promise was
\* fulfilled with the handle and the response
C5_WitnessGet ==
    /\ Done("get", "getTopic")
    /\ event.out # <<>>
    /\ event.out[1].to = "promise"
    /\ event.out[1].state = "fulfilled"
    /\ event.out[1].value = <<This, event.resp[2]>>

----------------------------------------------------------------------------
(* C6, as claimed: delete on a nonexistent topic delivers the NOT_FOUND    *)
(* error to an explicitly supplied callback; a delete call with no         *)
(* callback never throws and never surfaces a failure to the caller (any   *)
(* failure of the request is silently discarded).                          *)
C6_FireAndForget ==
    Done("delete", "deleteTopic") =>
        /\ Len(event.out) = 1
        /\ event.out[1].to # "TypeError"
        /\ (Innermost(event.done[1].callback) = "user" /\ FailedWith(5)) =>
              Received(event.out[1]).err = RespErr
        /\ (Innermost(event.done[1].callback) # "user" /\ ~Falsy(RespErr)) =>
              /\ event.out[1].to # "promise"
              /\ Received(event.out[1]).err.t # "error"

(* C6, amended: delete on a nonexistent topic delivers the NOT_FOUND error *)
(* to an explicitly supplied callback; a delete call with no callback      *)
(* never throws, and the promise it returns fails with the error of the    *)
(* delete request: the no-op absorber never receives the outcome, because  *)
(* the promisified method always hands the body a callback.                *)
C6_DeleteOutcome ==
    /\ Called("delete") =>
          /\ Len(event.issued) = 1
          /\ event.issued[1].method = "deleteTopic"
          /\ event.issued[1].callback =
                IF NoCallbackGiven THEN PromiseCallback ELSE UserCallback
    /\ Done("delete", "deleteTopic") =>
          /\ Delivered
          /\ event.out[1].args = event.resp
          /\ ~Falsy(RespErr) => Received(event.out[1]).err = RespErr
          /\ (event.out[1].to = "promise" /\ ~Falsy(RespErr)) =>
                event.out[1].state = "rejected"
          /\ Falsy(RespErr) =>
                Received(event.out[1]) =
                    [err |-> Null, results |-> Tail(event.resp)]

\* a delete called without a callback failed with code 5 and its promise
\* was rejected with that error
C6_Witness ==
    /\ Done("delete", "deleteTopic")
    /\ FailedWith(5)
    /\ event.out[1].to = "promise"
    /\ event.out[1].state = "rejected"
    /\ Received(event.out[1]).err = RespErr

\* a delete called with a callback failed with code 5 and the callback got
\* that error
C6_WitnessCallback ==
    /\ Done("delete", "deleteTopic")
    /\ FailedWith(5)
    /\ event.out[1].to = "callback"
    /\ event.out[1].args[1] = RespErr

----------------------------------------------------------------------------
(* C7: the metadata cache is absent until the first successful metadata    *)
(* fetch and changes only when a getTopic request completes successfully   *)
(* (through getMetadata, exists or get): create, delete (a successful      *)
(* delete included), getSubscriptions, publisher and subscription leave it *)
(* unchanged, and a successful delete leaves the handle as it was.         *)
C7_CacheChanges ==
    /\ metadata = Undefined
    /\ [][/\ metadata' # metadata =>
                /\ event'.kind = "done"
                /\ event'.op \in {"getMetadata", "exists", "get"}
                /\ event'.done[1].method = "getTopic"
                /\ Falsy(RespErr')
                /\ metadata' = event'.resp[2]
          /\ (event'.kind = "done" /\ event'.done[1].method = "getTopic"
                /\ Falsy(RespErr')) => metadata' = event'.resp[2]
          /\ (event'.kind = "done" /\ event'.done[1].method = "deleteTopic") =>
                /\ metadata' = metadata
                /\ name' = name
                /\ inflight' = inflight (-) SetToBag({Pending("delete",
                                   event'.done[1], 1, 0)})
          /\ name' = name]_vars

\* a delete succeeded with a payload cached, and the payload is still there
C7_Witness ==
    /\ Done("delete", "deleteTopic")
    /\ Falsy(RespErr)
    /\ metadata \in Metadatas

\* a create succeeded and the cache is still absent
C7_WitnessCreate ==
    /\ Done("create", "createTopic")
    /\ Falsy(RespErr)
    /\ metadata = Undefined

\* an exists found the topic and the response is cached
C7_WitnessExists ==
    /\ Done("exists", "getTopic")
    /\ Falsy(RespErr)
    /\ metadata = event.resp[2]

----------------------------------------------------------------------------
C8_WitnessError ==
    /\ Done("getSubscriptions", "listTopicSubscriptions")
    /\ ~Falsy(RespErr)
    /\ Len(event.resp) = 4
    /\ event.out[1].args = event.resp
    /\ event.made = <<>>

----------------------------------------------------------------------------
(* C9: name canonicalization.  For every project id p and every name n     *)
(* without '/', the handle's name is 'projects/' + p + '/topics/' + n; for *)
(* every name containing '/', the handle's name is that name unchanged, so *)
(* canonicalizing a canonical name is the identity.                        *)
C9_CanonicalName ==
    name # NotConstructed =>
        /\ "/" \in {topicName[i] : i \in 1..Len(topicName)} =>
              name = topicName
        /\ "/" \notin {topicName[i] : i \in 1..Len(topicName)} =>
              /\ Len(name) = 9 + Len(projectId) + 8 + Len(topicName)
              /\ SubSeq(name, 1, 9) =
                    <<"p", "r", "o", "j", "e", "c", "t", "s", "/">>
              /\ SubSeq(name, 10, 9 + Len(projectId)) = projectId
              /\ SubSeq(name, 10 + Len(projectId), 17 + Len(projectId)) =
                    <<"/", "t", "o", "p", "i", "c", "s", "/">>
              /\ SubSeq(name, 18 + Len(projectId), Len(name)) = topicName
        /\ formatName_(projectId, name) = name

\* the handle for name "a" in project "p" is named projects/p/topics/a
C9_Witness ==
    /\ projectId = <<"p">>
    /\ topicName = <<"a">>
    /\ name = <<"p", "r", "o", "j", "e", "c", "t", "s", "/", "p",
                "/", "t", "o", "p", "i", "c", "s", "/", "a">>

\* a handle made from a canonical name has that name
C9_WitnessCanonical ==
    /\ topicName = <<"p", "r", "o", "j", "e", "c", "t", "s", "/", "q",
                     "/", "t", "o", "p", "i", "c", "s", "/", "b">>
    /\ name = topicName

----------------------------------------------------------------------------
(* The operations that take (callback) | (options) | (options, callback) *)
NormalizedOps == {"create", "delete", "get", "getMetadata", "getSubscriptions"}

\* the fields of o other than those in ks
Without(o, ks) == [k \in DOMAIN o \ ks |-> o[k]]

----------------------------------------------------------------------------
(* C11: argument normalization is uniform.  For create, delete, get,       *)
(* getMetadata and getSubscriptions, a call of shape (callback) issues its *)
(* request with empty/default call options, the request the call with an   *)
(* empty options object issues, and completes that callback; a call of     *)
(* shape (options, callback) issues its request with the options given and *)
(* completes the callback in second position.  Neither shape hands the     *)
(* completion to anything but the caller's callback.                       *)
C11_Normalization ==
    /\ (event.kind = "call" /\ event.op \in NormalizedOps /\ ~NoCallbackGiven) =>
          LET r == event.issued[1]
              given == GetOptionsGiven
          IN  /\ Len(event.issued) = 1
              /\ Innermost(r.callback) = "user"
              /\ Len(event.args) = 1 =>
                    /\ r = Method(event.op, <<Obj(Empty), event.args[1]>>)
                    /\ event.op # "getSubscriptions" => r.gaxOpts = Empty
                    /\ event.op = "getSubscriptions" =>
                          /\ r.reqOpts = [topic |-> Str(name)]
                          /\ r.gaxOpts = [autoPaginate |-> Undefined]
              /\ Len(event.args) = 2 =>
                    /\ event.args[2] = UserCallback
                    /\ event.op \in {"create", "delete", "getMetadata"} =>
                          r.gaxOpts = given
                    /\ event.op = "get" =>
                          r.gaxOpts = Without(given, {"autoCreate"})
                    /\ event.op = "getSubscriptions" =>
                          \A k \in DOMAIN given \ {"gaxOpts", "autoPaginate"} :
                              r.reqOpts[k] = given[k]
    /\ (event.kind = "done" /\ event.op \in NormalizedOps
            /\ Innermost(event.done[1].callback) = "user") =>
          /\ Len(event.out) + Len(event.issued) = 1
          /\ \A i \in 1..Len(event.out) : event.out[i].to = "callback"
          /\ \A i \in 1..Len(event.issued) :
                Innermost(event.issued[i].callback) = "user"

\* a getMetadata called with a callback alone issued its request with empty
\* call options and that callback at the end of the chain
C11_Witness ==
    /\ Called("getMetadata")
    /\ event.args = <<UserCallback>>
    /\ event.issued[1].gaxOpts = Empty
    /\ event.issued[1].callback.f.callback = UserCallback

\* a delete called with (options, callback) completed the callback, its
\* request having carried the options
C11_WitnessOptions ==
    /\ Done("delete", "deleteTopic")
    /\ event.done[1].gaxOpts = [timeout |-> Num(10)]
    /\ event.out[1].to = "callback"

----------------------------------------------------------------------------
(* C12: transparent error conduit.  For getMetadata, delete and            *)
(* getSubscriptions the error the caller receives is the error the request *)
(* completed with, whatever its code, code 5 included; exists and get are  *)
(* the only operations that interpret code 5 (exists answers false, get    *)
(* with autoCreate goes on to create).                                     *)
C12_ErrorConduit ==
    /\ (event.kind = "done"
            /\ event.op \in {"getMetadata", "delete", "getSubscriptions"}
            /\ ~Falsy(RespErr)) =>
          /\ Delivered
          /\ event.out[1].args[1] = RespErr
          /\ Received(event.out[1]).err = RespErr
          /\ event.issued = <<>>
    /\ (Done("exists", "getTopic") /\ FailedWith(5)) =>
          /\ Delivered
          /\ Received(event.out[1]).err = Null
    /\ (Done("get", "getTopic") /\ FailedWith(5)) =>
          \/ event.out = <<>> /\ event.issued # <<>>
          \/ Delivered /\ Received(event.out[1]).err = RespErr

\* a getSubscriptions failed with code 5 and its caller got that error
C12_Witness ==
    /\ Done("getSubscriptions", "listTopicSubscriptions")
    /\ FailedWith(5)
    /\ Received(event.out[1]).err = RespErr

\* a getMetadata failed with code 5 and its caller got that error
C12_WitnessMetadata ==
    /\ Done("getMetadata", "getTopic")
    /\ FailedWith(5)
    /\ Received(event.out[1]).err = RespErr

----------------------------------------------------------------------------
(* C13: subscription(name, options) is pure construction.  For every       *)
(* options value, one that already names another topic included, the       *)
(* options handed to the owning context's subscription constructor have    *)
(* topic equal to this handle and the other fields as given; the call      *)
(* issues no request, and neither does publisher(options).                 *)
C13_PureConstruction ==
    [][event'.kind = "sync" =>
          /\ inflight' = inflight
          /\ metadata' = metadata
          /\ event'.issued = <<>>
          /\ Len(event'.made) = 1
          /\ event'.op = "subscription" =>
                LET given == IF Falsy(event'.args[2]) THEN Empty
                             ELSE event'.args[2].o
                    made == event'.made[1]
                IN  /\ made = pubsubSubscription(event'.args[1], made.options)
                    /\ made.options.topic = This
                    /\ DOMAIN made.options = DOMAIN given \cup {"topic"}
                    /\ \A k \in DOMAIN given \ {"topic"} :
                          made.options[k] = given[k]
          /\ event'.op = "publisher" =>
                event'.made[1] = Publisher(This, event'.args[1])]_vars

\* a subscription was made from options that named another topic, and the
\* options handed on name this handle
C13_Witness ==
    /\ event.kind = "sync"
    /\ event.op = "subscription"
    /\ event.args[2] = Obj([topic |-> Str(<<"o">>)])
    /\ event.made[1].options.topic = This

\* a publisher was made while a request was pending
C13_WitnessPublisher ==
    /\ event.kind = "sync"
    /\ event.op = "publisher"
    /\ inflight # EmptyBag

----------------------------------------------------------------------------
\* the response of the last successful fetch in the history h, undefined
\* when there is none
RECURSIVE LastFetched(_)
LastFetched(h) ==
    IF h = <<>> THEN Undefined
    ELSE LET x == h[Len(h)]
         IN  IF x.kind = "done" /\ x.got # Null THEN x.got
             ELSE LastFetched(SubSeq(h, 1, Len(h) - 1))

(* C14: concurrent metadata fetches are last-writer-wins by completion     *)
(* order.  With getMetadata, exists and get calls in flight on one handle  *)
(* and their completions interleaved in any way, the cache is at every     *)
(* state absent or one whole response, and it is the response of the fetch *)
(* that completed successfully last, whatever the order of the calls; a    *)
(* failed completion after a successful one leaves it.                     *)
C14_LastWriterWins ==
    /\ metadata \in {Undefined} \cup Metadatas
    /\ metadata = LastFetched(history)

\* getMetadata was called before exists and completed after it, both with
\* success: the cache holds the response getMetadata got
C14_Witness ==
    /\ Len(history) = 4
    /\ history[1] = [kind |-> "call", op |-> "getMetadata"]
    /\ history[2] = [kind |-> "call", op |-> "exists"]
    /\ history[3] = [kind |-> "done", op |-> "exists",
                     got |-> Obj([rev |-> Num(2)])]
    /\ history[4] = [kind |-> "done", op |-> "getMetadata",
                     got |-> Obj([rev |-> Num(1)])]
    /\ metadata = Obj([rev |-> Num(1)])

\* of two fetches in flight together the one that failed completed last:
\* the cache holds the response of the other
C14_WitnessFailedLast ==
    /\ Len(history) = 4
    /\ history[1].kind = "call" /\ history[2].kind = "call"
    /\ history[3].kind = "done" /\ history[3].got \in Metadatas
    /\ history[4].kind = "done" /\ history[4].got = Null
    /\ metadata = history[3].got

----------------------------------------------------------------------------
C15_WitnessCreate ==
    /\ Done("get", "createTopic")
    /\ ~Falsy(RespErr)
    /\ event.issued = <<>>
    /\ event.nReq = 1 /\ event.nCreate = 1

----------------------------------------------------------------------------
(* C16: autoCreate is consumed by get and never reaches the transport.     *)
(* For every options value, the call options of the getTopic request, and  *)
(* those passed on to create when get creates, have no autoCreate field    *)
(* and have every other field of the options as it was given.              *)
C16_AutoCreateStripped ==
    /\ Called("get") =>
          /\ event.issued[1].method = "getTopic"
          /\ "autoCreate" \notin DOMAIN event.issued[1].gaxOpts
          /\ DOMAIN event.issued[1].gaxOpts =
                DOMAIN GetOptionsGiven \ {"autoCreate"}
          /\ \A k \in DOMAIN GetOptionsGiven \ {"autoCreate"} :
                event.issued[1].gaxOpts[k] = GetOptionsGiven[k]
    /\ (Done("get", "getTopic") /\ event.issued # <<>>) =>
          /\ event.issued[1].method = "createTopic"
          /\ "autoCreate" \notin DOMAIN event.issued[1].gaxOpts
          /\ event.issued[1].gaxOpts = event.done[1].gaxOpts
    /\ \A p \in BagToSet(inflight) :
          p.op = "get" => "autoCreate" \notin DOMAIN p.req.gaxOpts

\* a get given autoCreate and a timeout went on to create with the timeout
\* alone
C16_Witness ==
    /\ Done("get", "getTopic")
    /\ event.issued # <<>>
    /\ event.issued[1].method = "createTopic"
    /\ event.issued[1].gaxOpts = [timeout |-> Num(10)]

\* a get given autoCreate false and nothing else fetched with empty options
C16_WitnessCall ==
    /\ Called("get")
    /\ GetOptionsGiven = [autoCreate |-> Bool(FALSE)]
    /\ event.issued[1].gaxOpts = Empty

----------------------------------------------------------------------------
\* the fields of options.gaxOpts given to the call (none when it is absent)
GaxOptsGiven ==
    IF Truthy(Prop(GetOptionsGiven, "gaxOpts"))
    THEN GetOptionsGiven.gaxOpts.o ELSE Empty

\* the payload of a listing holds the option fields other than gaxOpts and
\* autoPaginate, next to the topic
PayloadSplit(r) ==
    /\ DOMAIN r.reqOpts =
          {"topic"} \cup (DOMAIN GetOptionsGiven \ {"gaxOpts", "autoPaginate"})
    /\ \A k \in DOMAIN GetOptionsGiven \ {"gaxOpts", "autoPaginate"} :
          r.reqOpts[k] = GetOptionsGiven[k]
    /\ "topic" \notin DOMAIN GetOptionsGiven => r.reqOpts.topic = Str(name)

\* the call options of a listing hold autoPaginate and the fields of
\* options.gaxOpts
ControlSplit(r) ==
    /\ DOMAIN r.gaxOpts = {"autoPaginate"} \cup DOMAIN GaxOptsGiven
    /\ \A k \in DOMAIN GaxOptsGiven : r.gaxOpts[k] = GaxOptsGiven[k]

C17_WitnessOverride ==
    /\ Called("getSubscriptions")
    /\ Prop(GetOptionsGiven, "autoPaginate") = Bool(FALSE)
    /\ event.issued[1].gaxOpts = [autoPaginate |-> Bool(TRUE)]

----------------------------------------------------------------------------
\* the methods whose request payload names the topic
TopicMethods == {"deleteTopic", "getTopic", "listTopicSubscriptions"}

(* C18: every request issued by a handle targets that handle.  For every   *)
(* operation and every options value, options with a field named topic     *)
(* included, the topic field of the deleteTopic, getTopic and              *)
(* listTopicSubscriptions payloads is the handle's canonical name, which   *)
(* stays what the constructor made it.                                     *)
C18_TargetsHandle ==
    /\ name = formatName_(projectId, topicName)
    /\ \A p \in BagToSet(inflight) :
          p.req.method \in TopicMethods => p.req.reqOpts.topic = Str(name)
    /\ event.kind \in {"call", "done"} =>
          \A i \in 1..Len(event.issued) :
              event.issued[i].method \in TopicMethods =>
                  event.issued[i].reqOpts.topic = Str(name)

\* a listing was issued whose payload names what the options named
C18_OtherTopic ==
    /\ Called("getSubscriptions")
    /\ "topic" \in DOMAIN GetOptionsGiven
    /\ event.issued[1].reqOpts.topic = GetOptionsGiven.topic
    /\ event.issued[1].reqOpts.topic # Str(name)

----------------------------------------------------------------------------
(* C19: operations do not modify the options object the caller supplies.   *)
(* After get(options, ...), getSubscriptions(options, ...) or              *)
(* subscription(name, options) the caller's object has the fields and      *)
(* values it had before the first call, so a get given an object that had  *)
(* autoCreate true takes autoCreate as true however many calls the object  *)
(* was passed to before.                                                   *)
C19_OptionsUntouched ==
    /\ history # <<>> => kept = history[1].given
    /\ (Called("get") /\ Truthy(Prop(history[1].given, "autoCreate"))) =>
          IssuedGetClosure.autoCreate

\* the second of two gets given the same object, which had autoCreate true,
\* failed with code 5 and handed that error to its caller
C19_SecondGetNotFound ==
    /\ Len(history) = 2
    /\ history[1].op = "get" /\ history[2].op = "get"
    /\ Truthy(Prop(history[1].given, "autoCreate"))
    /\ Done("get", "getTopic")
    /\ FailedWith(5)
    /\ ~InnerClosure.autoCreate
    /\ Received(event.out[1]).err = RespErr

\* a listing was given the object a subscription call had been given, and
\* its payload names the handle object in place of the handle's name
C19_TopicLeaks ==
    /\ Len(history) = 2
    /\ history[1].op = "subscription" /\ history[1].given = Empty
    /\ Called("getSubscriptions")
    /\ event.issued[1].reqOpts.topic = This

----------------------------------------------------------------------------
\* the operations that wrap the caller's callback in one of their own
WrappingOps == {"exists", "get", "getMetadata", "getSubscriptions"}

(* C20: exactly-once completion.  Each request being completed once, every *)
(* call of exists, get, getMetadata and getSubscriptions invokes the       *)
(* caller's callback exactly once, in every branch (success, code 5, other *)
(* failure, auto-create), and never before the underlying request has      *)
(* completed: the call itself invokes nothing, and a completion either     *)
(* invokes the callback once or hands it, uninvoked, to the one create.    *)
C20_ExactlyOnce ==
    /\ (event.kind = "call" /\ event.op \in WrappingOps) =>
          /\ event.out = <<>>
          /\ Len(event.issued) = 1
          /\ Innermost(event.issued[1].callback) \in {"user", "promise"}
    /\ (event.kind = "done" /\ event.op \in WrappingOps) =>
          /\ Len(event.out) + Len(event.issued) = 1
          /\ \A i \in 1..Len(event.out) :
                /\ event.out[i].to \in {"callback", "promise"}
                /\ event.out[i].to = "callback" <=>
                      Innermost(event.done[1].callback) = "user"
          /\ \A i \in 1..Len(event.issued) :
                /\ event.op = "get"
                /\ event.done[1].method = "getTopic"
                /\ event.issued[i].method = "createTopic"
                /\ event.issued[i].callback = InnerClosure.callback
          /\ event.done[1].method = "createTopic" => Len(event.out) = 1
    /\ \A p \in BagToSet(inflight) :
          p.op \in WrappingOps =>
              Innermost(p.req.callback) \in {"user", "promise"}

\* a get's fetch failed with code 5 under autoCreate: the callback was not
\* invoked and went to the create
C20_Witness ==
    /\ Done("get", "getTopic")
    /\ FailedWith(5)
    /\ event.out = <<>>
    /\ event.issued[1].callback = UserCallback

\* the create of a get completed and the callback was invoked, once, with
\* nothing of that call left pending
C20_WitnessCreated ==
    /\ Done("get", "createTopic")
    /\ Len(event.out) = 1
    /\ event.out[1].to = "callback"
    /\ inflight = EmptyBag

\* an exists answered a code 5 failure with one invocation of the callback
C20_WitnessExists ==
    /\ Done("exists", "getTopic")
    /\ FailedWith(5)
    /\ Len(event.out) = 1
    /\ event.out[1].to = "callback"
    /\ event.out[1].args = <<Null, Bool(FALSE)>>

----------------------------------------------------------------------------
(* C21: get-or-create under interleaving.  The remote service failing only *)
(* with NOT_FOUND for a fetch of an absent topic and with already-exists   *)
(* for a create of a present one, every get with autoCreate true completes *)
(* without error and with the handle, for any number of concurrent         *)
(* get({autoCreate: true}) calls on the same missing topic and any         *)
(* interleaving of their fetch and create requests.                        *)
C21_GetOrCreate ==
    (event.kind = "done" /\ event.op = "get" /\ event.out # <<>>) =>
        /\ Delivered
        /\ Received(event.out[1]).err = Null
        /\ Len(Received(event.out[1]).results) > 0
        /\ Received(event.out[1]).results[1].t = "Topic"
        /\ Received(event.out[1]).results[1].name = name

\* two gets both fetched before either created; the create of the second
\* was answered already-exists and that error went to its caller
C21_Conflict ==
    /\ Len(history) = 6
    /\ history[1].kind = "call" /\ history[2].kind = "call"
    /\ history[3].kind = "done" /\ history[4].kind = "done"
    /\ history[5].kind = "created"
    /\ history[6].kind = "conflict"
    /\ Done("get", "createTopic")
    /\ FailedWith(ALREADY_EXISTS)
    /\ Received(event.out[1]).err = RespErr

\* a get on its own created the missing topic and got the handle
C21_Alone ==
    /\ Len(history) = 3
    /\ history[3].kind = "created"
    /\ Done("get", "createTopic")
    /\ Received(event.out[1]).err = Null
    /\ Received(event.out[1]).results[1] = CreatedTopic

====
